---- MODULE Spec2Model ----
(***************************************************************************)
(* A model of mrpy's analytic likelihood (analytic_model.IdealAnalytic),   *)
(* of the least-squares wrapper simple_fits.get_fit_analytic and of the    *)
(* Behroozi+13 parameters of physical_dependence.                          *)
(*                                                                         *)
(* Numbers are modelled as elements of the prime field Z_P: + - * / are    *)
(* the field operations, with one extra value NaN for a non-finite result  *)
(* (x / 0 on arrays), and every function of the external special-function *)
(* and distribution-shape providers is a fixed map on the field.  Arrays   *)
(* are records [sh, d] holding the numpy shape and the row-major data.     *)
(* What the model keeps exact is the control flow, the shapes, the         *)
(* indexing, the algebra and the memoization of the code.                  *)
(***************************************************************************)
EXTENDS Integers, Sequences, FiniteSets, TLC

\* Largest number of parameter sets in a batched instance.
MaxBatch == 3

\* Defaults of IdealAnalytic.__init__.
DefaultLnA == -44
DefaultV == 8000000

(***************************************************************************)
(* Python values handed in by the caller: None, a number, a 1-d array.     *)
(***************************************************************************)
PyNone == [k |-> "none", v |-> <<>>]
PyNum(n) == [k |-> "num", v |-> <<n>>]
PyArr(s) == [k |-> "arr", v |-> s]

\* hasattr(p, "__len__")
HasLen(p) == p.k = "arr"

\* bool(p) raises "truth value of an array is ambiguous" for len(p) > 1
TruthExc(p) == p.k = "arr" /\ Len(p.v) > 1

\* bool(p) where it is defined
Truthy(p) ==
  CASE p.k = "none" -> FALSE
    [] p.k = "num" -> p.v[1] # 0
    [] OTHER -> Len(p.v) = 1 /\ p.v[1] # 0

\* The expression  a or b : b is returned without being truth-tested.
PyOr(a, b) ==
  IF TruthExc(a) THEN [exc |-> "ValueError", val |-> PyNone]
  ELSE [exc |-> "", val |-> IF Truthy(a) THEN a ELSE b]

\* a + b on caller values (b is always a number here: the scale shift).
PyAdd(a, b) ==
  [k |-> a.k, v |-> [i \in 1..Len(a.v) |-> a.v[i] + b.v[1]]]

(***************************************************************************)
(* The constructor.                                                        *)
(***************************************************************************)
\* An object on which no attribute has been assigned yet.
Blank ==
  [set |-> {}, logm |-> PyNone, mmin |-> PyNone, logHs |-> PyNone,
   alpha |-> PyNone, beta |-> PyNone, scale |-> PyNone, _alpha_s |-> PyNone,
   V |-> PyNone, lnA |-> PyNone, logHsd |-> PyNone, alphad |-> PyNone,
   betad |-> PyNone, _alphad_s |-> PyNone, _shape |-> <<>>]

\* if "log_mmin" not in kwargs: raise ValueError  else: kwargs.pop("log_mmin")
PopKeepsKey(kwargs) ==
  IF "log_mmin" \notin DOMAIN kwargs
  THEN [exc |-> "ValueError", log_mmin |-> PyNone, kwargs |-> kwargs]
  ELSE [exc |-> "", log_mmin |-> kwargs["log_mmin"], kwargs |-> kwargs]

PopLogMmin(kwargs) ==
  IF "log_mmin" \notin DOMAIN kwargs
  THEN [exc |-> "ValueError", log_mmin |-> PyNone, kwargs |-> kwargs]
  ELSE [exc |-> "", log_mmin |-> kwargs["log_mmin"],
        kwargs |-> [key \in DOMAIN kwargs \ {"log_mmin"} |-> kwargs[key]]]

\* MRP_PO_Likelihood.__init__(logm, logHs, alpha, beta, scale): stores the
\* model parameters, the truncation mass and the shifted slope.
SuperInit(self, logm, kwargs) ==
  [self EXCEPT !.set = @ \cup {"logm", "mmin", "logHs", "alpha", "beta",
                               "scale", "_alpha_s"},
               !.logm = logm,
               !.mmin = PyNum(logm.v[1]),
               !.logHs = kwargs["logHs"],
               !.alpha = kwargs["alpha"],
               !.beta = kwargs["beta"],
               !.scale = kwargs["scale"],
               !._alpha_s = PyAdd(kwargs["alpha"], kwargs["scale"])]

\* [getattr(getattr(self, q), "__len__", None) for q in [...]] with every None
\* removed: the attributes among the five that have a length.
ShapeNames == <<"mmin", "logHs", "alpha", "beta", "scale">>

ShapeOf(self) ==
  LET has(q) == CASE q = "mmin" -> HasLen(self.mmin)
                  [] q = "logHs" -> HasLen(self.logHs)
                  [] q = "alpha" -> HasLen(self.alpha)
                  [] q = "beta" -> HasLen(self.beta)
                  [] OTHER -> HasLen(self.scale)
  IN SelectSeq(ShapeNames, has)

\* IdealAnalytic.__init__: the object as it stands when the constructor
\* returns or raises, and what was forwarded to the superclass.
IdealAnalyticInit(lnA, V, logHsd, alphad, betad, kwargs) ==
  LET p == PopLogMmin(kwargs)
      s1 == SuperInit(Blank, PyArr(<<p.log_mmin.v[1]>>), p.kwargs)
      s2 == [s1 EXCEPT !.set = @ \cup {"V", "lnA"}, !.V = V, !.lnA = lnA]
      o1 == PyOr(logHsd, s2.logHs)
      s3 == [s2 EXCEPT !.set = @ \cup {"logHsd"}, !.logHsd = o1.val]
      o2 == PyOr(alphad, s3.alpha)
      s4 == [s3 EXCEPT !.set = @ \cup {"alphad"}, !.alphad = o2.val]
      o3 == PyOr(betad, s4.beta)
      s5 == [s4 EXCEPT !.set = @ \cup {"betad"}, !.betad = o3.val]
      s6 == [s5 EXCEPT !.set = @ \cup {"_alphad_s"},
                       !._alphad_s = PyAdd(s5.alphad, s5.scale)]
      s7 == [s6 EXCEPT !.set = @ \cup {"_shape"}, !._shape = ShapeOf(s6)]
      sup(s) == [called |-> TRUE, logm |-> s.logm, keys |-> DOMAIN p.kwargs]
  IN CASE p.exc # "" ->
            [exc |-> p.exc, self |-> Blank,
             super |-> [called |-> FALSE, logm |-> PyNone, keys |-> {}]]
       [] p.exc = "" /\ o1.exc # "" ->
            [exc |-> o1.exc, self |-> s2, super |-> sup(s2)]
       [] p.exc = "" /\ o1.exc = "" /\ o2.exc # "" ->
            [exc |-> o2.exc, self |-> s3, super |-> sup(s3)]
       [] p.exc = "" /\ o1.exc = "" /\ o2.exc = "" /\ o3.exc # "" ->
            [exc |-> o3.exc, self |-> s4, super |-> sup(s4)]
       [] OTHER ->
            [exc |-> "", self |-> s7, super |-> sup(s7)]

(***************************************************************************)
(* Terms and arrays.                                                       *)
(***************************************************************************)
\* The modulus of the field (a prime whose square fits a machine integer).
P == 100 * 100 + 7

\* The non-finite value (inf or nan).
NaN == P

Num(n) == n % P

RECURSIVE PowMod(_, _)
PowMod(x, e) ==
  IF e = 0 THEN 1
  ELSE LET h == PowMod(x, e \div 2)
           sq == (h * h) % P
       IN IF e % 2 = 1 THEN (sq * x) % P ELSE sq

\* 1 / x in the field, for every x # 0
InvP == [x \in 1..(P - 1) |-> PowMod(x, P - 2)] \o <<>>

\* The fixed maps that stand for the external functions.
Salt(op) ==
  CASE op = "pow10" -> 3 [] op = "gamma" -> 5 [] op = "log" -> 7
    [] op = "exp" -> 11 [] op = "polygamma0" -> 13 [] op = "sqrt" -> 17
    [] op = "gammainc" -> 19 [] op = "**" -> 23 [] op = "," -> 29
    [] op = "ln_mrp_shape" -> 31 [] op = "q" -> 37 [] op = "lng2" -> 41
    [] op = "lnq2" -> 43 [] op = "meijerg1" -> 47 [] op = "meijerg2" -> 53
    [] op = "hyper" -> 59 [] op = "mrp" -> 61 [] op = "A_rhoc" -> 67
    [] op = "pdf_norm" -> 71 [] op = "alpha_and_A" -> 73
    [] OTHER -> 79

F1(s, x) == (x * x + s * x + s) % P

F2(s, x, y) == (((x * y) % P) * s + x * (s + 1) + y * y + s) % P

\* One application of a unary function.
TermUn(op, x) ==
  CASE x = NaN -> NaN
    [] op = "neg" -> (P - x) % P
    [] OTHER -> F1(Salt(op), x)

\* One application of a binary function.
TermOp(op, x, y) ==
  CASE x = NaN \/ y = NaN -> NaN
    [] op = "+" -> (x + y) % P
    [] op = "-" -> (x + P - y) % P
    [] op = "*" -> (x * y) % P
    [] op = "/" -> IF y = 0 THEN NaN ELSE (x * InvP[y]) % P
    [] OTHER -> F2(Salt(op), x, y)

\* The sequence f with every element evaluated.
Tup(f) == f \o <<>>

RECURSIVE Prod(_)
Prod(s) == IF s = <<>> THEN 1 ELSE Head(s) * Prod(Tail(s))

Max2(a, b) == IF a >= b THEN a ELSE b

\* A 0-d value and the array of a caller value.
Scalar(t) == [sh |-> <<>>, d |-> <<t>>]

ToNd(p) ==
  [sh |-> IF p.k = "arr" THEN <<Len(p.v)>> ELSE <<>>,
   d |-> Tup([i \in 1..Len(p.v) |-> Num(p.v[i])])]

NdHasLen(a) == Len(a.sh) >= 1

\* numpy broadcasting of two shapes: aligned at the trailing dimension.
Pad(s, r) ==
  [i \in 1..r |-> IF i <= r - Len(s) THEN 1 ELSE s[i - (r - Len(s))]]

BcOK(s1, s2) ==
  LET r == Max2(Len(s1), Len(s2))
      p1 == Pad(s1, r)
      p2 == Pad(s2, r)
  IN \A i \in 1..r : p1[i] = p2[i] \/ p1[i] = 1 \/ p2[i] = 1

BcShape(s1, s2) ==
  LET r == Max2(Len(s1), Len(s2))
      p1 == Pad(s1, r)
      p2 == Pad(s2, r)
  IN [i \in 1..r |-> IF p1[i] = 1 THEN p2[i] ELSE p1[i]]

Stride(sh, i) == Prod(SubSeq(sh, i + 1, Len(sh)))

\* The 0-based multi-index of the k-th (1-based) element in row-major order.
Unflatten(sh, k) ==
  [i \in 1..Len(sh) |-> ((k - 1) \div Stride(sh, i)) % sh[i]]

RECURSIVE FlatFrom(_, _, _)
FlatFrom(sh, idx, i) ==
  IF i > Len(sh) THEN 0
  ELSE idx[i] * Stride(sh, i) + FlatFrom(sh, idx, i + 1)

Flatten(sh, idx) == 1 + FlatFrom(sh, idx, 1)

\* The element of a (shape padded to the rank of the result) that lands on
\* position idx of the broadcast result.
BcElem(a, r, idx) ==
  LET p == Pad(a.sh, r)
  IN a.d[Flatten(p, [i \in 1..r |-> IF p[i] = 1 THEN 0 ELSE idx[i]])]

\* An elementwise binary operation on two broadcastable arrays.
Bin(op, a, b) ==
  LET sh == BcShape(a.sh, b.sh)
      r == Len(sh)
  IN [sh |-> sh,
      d |-> Tup([k \in 1..Prod(sh) |->
                   TermOp(op, BcElem(a, r, Unflatten(sh, k)),
                              BcElem(b, r, Unflatten(sh, k)))])]

Un(op, a) == [sh |-> a.sh, d |-> Tup([k \in 1..Len(a.d) |-> TermUn(op, a.d[k])])]

\* np.squeeze: every dimension of length 1 is dropped.
Squeeze(a) == [sh |-> SelectSeq(a.sh, LAMBDA n : n # 1), d |-> a.d]

\* a[i] for a 0-based i: the i-th slice along the first axis.
Slice(a, i) ==
  LET rest == Tail(a.sh)
      n == Prod(rest)
  IN [sh |-> rest, d |-> SubSeq(a.d, i * n + 1, (i + 1) * n)]

\* np.array([x1, ..., xn]) of equally shaped arrays.
RECURSIVE ConcatData(_)
ConcatData(xs) ==
  IF xs = <<>> THEN <<>> ELSE Head(xs).d \o ConcatData(Tail(xs))

Stack(xs) ==
  [sh |-> IF xs = <<>> THEN <<0>> ELSE <<Len(xs)>> \o xs[1].sh,
   d |-> ConcatData(xs)]

(***************************************************************************)
(* The regularized hypergeometric function and its three input shapes.     *)
(***************************************************************************)
\* hyperReg(a, b, z) on scalars: hyper(a, b, z) / prod(gamma(bb) for bb in b)
hyperReg(a, b, z) ==
  TermOp("/", TermOp("hyper", TermOp(",", TermOp(",", a[1].d[1], a[2].d[1]),
                                          TermOp(",", b[1].d[1], b[2].d[1])), z),
              TermOp("*", TermUn("gamma", b[1].d[1]), TermUn("gamma", b[2].d[1])))

\* hyperRegA(a_s, b_s, z): the same, elementwise over the array z
hyperRegA(a, b, z) ==
  [sh |-> z.sh, d |-> Tup([k \in 1..Len(z.d) |-> hyperReg(a, b, z.d[k])])]

zeros_like(a) == [sh |-> a.sh, d |-> Tup([k \in 1..Len(a.d) |-> Num(0)])]

atleast_1d(z) == IF z.sh = <<>> THEN [sh |-> <<1>>, d |-> z.d] ELSE z

repeat(z, n) == [sh |-> <<n>>, d |-> Tup([k \in 1..n |-> z.d[1]])]

Min2(a, b) == IF a <= b THEN a ELSE b

\* zip(p, q, r) of three 1-d arrays
zip(p, q, r) ==
  [k \in 1..Min2(Len(p.d), Min2(Len(q.d), Len(r.d))) |-> <<p.d[k], q.d[k], r.d[k]>>]

\* enumerate(s): the pairs (index, item)
enumerate(s) == [k \in 1..Len(s) |-> <<k - 1, s[k]>>]

\* for i, aa, bb, zz in items: ...   An item that does not have exactly four
\* components cannot be unpacked into the four loop variables.
RECURSIVE HyperLoop(_, _, _, _)
HyperLoop(items, x, y, out) ==
  IF items = <<>> THEN [exc |-> "", val |-> out]
  ELSE LET it == Head(items)
       IN IF Len(it) # 4 THEN [exc |-> "ValueError", val |-> out]
          ELSE LET x1 == [x EXCEPT ![1] = Scalar(it[2]), ![2] = Scalar(it[2])]
                   y1 == [y EXCEPT ![1] = Scalar(it[3]), ![2] = Scalar(it[3])]
                   o1 == [out EXCEPT !.d[it[1] + 1] = hyperReg(x1, y1, it[4])]
               IN HyperLoop(Tail(items), x1, y1, o1)

\* IdealAnalytic._hyperReg(a, b, z).  a and b are the caller's lists as they
\* stand after the call: the loop works on copies.
_hyperReg(a, b, z) ==
  IF NdHasLen(a[1]) THEN
    LET x == a
        y == b
        out == zeros_like(a[1])
        z1 == atleast_1d(z)
        z2 == IF Len(z1.d) = 1 THEN repeat(z1, Len(a[1].d)) ELSE z1
        r == HyperLoop(enumerate(zip(a[1], b[1], z2)), x, y, out)
    IN [exc |-> r.exc, val |-> r.val, a |-> a, b |-> b]
  ELSE IF NdHasLen(z) THEN
    [exc |-> "", val |-> hyperRegA(a, b, z), a |-> a, b |-> b]
  ELSE
    [exc |-> "", val |-> Scalar(hyperReg(a, b, z.d[1])), a |-> a, b |-> b]

(***************************************************************************)
(* Expressions.  The body of a property is kept as the expression the      *)
(* source returns, and one evaluator runs it left to right as Python does: *)
(* reading a property evaluates and memoizes it, and an exception ends the *)
(* evaluation and leaves what was memoized before it.                      *)
(***************************************************************************)
Lit(k) == <<"lit", k>>                  \* a literal number
Attr(n) == <<"attr", n>>                \* self.n, set by the constructor
Prop(n) == <<"prop", n>>                \* self.n, a memoized property
Super(n) == <<"super", n>>              \* self.n, computed by the superclass
Fn1(op, x) == <<"fn1", op, x>>          \* op(x)
Fn2(op, x, y) == <<"fn2", op, x, y>>    \* op(x, y) or x op y
After(e, f) == <<"after", e, f>>        \* f, once e has been evaluated
Call(f, es) == <<"call", f, es>>        \* f(es[1], ..., es[n])

Add(x, y) == Fn2("+", x, y)
Sub(x, y) == Fn2("-", x, y)
Mul(x, y) == Fn2("*", x, y)
Div(x, y) == Fn2("/", x, y)
Pow(x, y) == Fn2("**", x, y)
Neg(x) == Fn1("neg", x)
Log(x) == Fn1("log", x)

One == Scalar(Num(1))

Zero == Scalar(Num(0))

\* ln10 = np.log(10)
ln10 == Log(Lit(10))

\* @cached def Hsd
Hsd == Fn1("pow10", Attr("logHsd"))

_yd == Div(Attr("mmin"), Prop("Hsd"))

_xd == Pow(Prop("_yd"), Attr("betad"))

_zd == Div(Add(Attr("_alphad_s"), Lit(1)), Attr("betad"))

\* self._zd + self.beta / self.betad
ZdShift == Add(Prop("_zd"), Div(Attr("beta"), Attr("betad")))

_gammazd == Fn1("gamma", Prop("_zd"))

_gammainc_z1xd == Fn2("gammainc", ZdShift, Prop("_xd"))

_G1d_p1 == Div(Fn2("meijerg1", ZdShift, Prop("_xd")), Prop("_gammainc_z1xd"))

_G2d_p1 == Div(Fn2("meijerg2", ZdShift, Prop("_xd")), Prop("_gammainc_z1xd"))

_Gbard_p1 == Add(Mul(Prop("_G1d_p1"), Log(Prop("_xd"))), Mul(Lit(2), Prop("_G2d_p1")))

_qd == Mul(Fn2("gammainc", Prop("_zd"), Prop("_xd")), Prop("Hsd"))

_qd_nos ==
  Mul(Fn2("gammainc", Div(Add(Attr("alphad"), Lit(1)), Attr("betad")), Prop("_xd")),
      Prop("Hsd"))

_t ==
  After(Prop("_zd"),
    Mul(Mul(Div(Mul(Attr("_alpha_s"), Prop("Hsd")), Attr("betad")), Prop("_gammazd")),
        Sub(Add(Mul(Mul(Pow(Prop("_yd"), Add(Attr("_alphad_s"), Lit(1))),
                        Prop("_gammazd")),
                    Call("_hyperReg",
                         <<Prop("_zd"), Prop("_zd"),
                           Add(Prop("_zd"), Lit(1)), Add(Prop("_zd"), Lit(1)),
                           Neg(Prop("_xd"))>>)),
                Fn1("polygamma0", Prop("_zd"))),
            Mul(Attr("betad"), Log(Prop("_yd"))))))

_u ==
  Mul(Pow(Div(Prop("Hsd"), Super("Hs")), Attr("beta")),
      Sub(Mul(Prop("Hsd"), Prop("_gammainc_z1xd")),
          Mul(Pow(Prop("_xd"), Div(Attr("beta"), Attr("betad"))), Prop("_qd"))))

_F ==
  Fn1("squeeze",
      Sub(Add(Mul(Prop("_qd"), Sub(Super("_lng"), Log(Super("_q")))), Prop("_t")),
          Prop("_u")))

\* self.V * np.exp(self.lnA) * (self._qd_nos / self._qd)
Prefactor ==
  Mul(Mul(Attr("V"), Fn1("exp", Attr("lnA"))), Div(Prop("_qd_nos"), Prop("_qd")))

lnL == Mul(Prefactor, Prop("_F"))

_u_h == Mul(Mul(Neg(Attr("beta")), Prop("_u")), ln10)

_u_h_h == Mul(Mul(Neg(ln10), Attr("beta")), Prop("_u_h"))

\* self.Hsd / self.Hs
HFrac == Div(Prop("Hsd"), Super("Hs"))

_u_b ==
  Add(Mul(Log(HFrac), Prop("_u")),
      Mul(Pow(HFrac, Attr("beta")),
          Mul(Div(Lit(1), Attr("betad")),
              Add(Div(Mul(Prop("_u"), Log(Prop("_xd"))), Pow(HFrac, Attr("beta"))),
                  Mul(Mul(Prop("Hsd"), Prop("_gammainc_z1xd")), Prop("_G1d_p1"))))))

_u_h_b == Mul(Neg(ln10), Add(Prop("_u"), Mul(Attr("beta"), Prop("_u_b"))))

_u_b_b ==
  After(HFrac,
    Mul(Div(Lit(1), Attr("betad")),
        Add(Add(Mul(Prop("_u_b"),
                    Add(Mul(Attr("betad"), Log(HFrac)), Log(Prop("_xd")))),
                Mul(Mul(Mul(Mul(Log(HFrac), Prop("Hsd")), Prop("_G1d_p1")),
                        Prop("_gammainc_z1xd")),
                    Pow(HFrac, Attr("beta")))),
            Div(Mul(Mul(Mul(Prop("Hsd"), Pow(HFrac, Attr("beta"))),
                        Prop("_gammainc_z1xd")),
                    Prop("_Gbard_p1")),
                Attr("betad")))))

\* "_u_%s_%s" % (x, y) and the like
AttrName(prefix, x, y) == prefix \o x \o "_" \o y

\* The six second partials the classes define.
StoredPairs == {<<"h", "h">>, <<"h", "a">>, <<"h", "b">>,
                <<"a", "a">>, <<"a", "b">>, <<"b", "b">>}

\* The properties that return the constant 0: the four u partials that
\* involve the slope, and every second partial of t.
ZeroProps ==
  {"_u_a", "_u_a_a", "_u_h_a", "_u_a_b"}
    \cup {AttrName("_t_", p[1], p[2]) : p \in StoredPairs}

\* The mutant of Canon: only a request that ends in h is swapped.
CanonOnlyH(x, y) == IF y = "h" THEN <<y, x>> ELSE <<x, y>>

\* if y == "h" or (y == "a" and x == "b"): x, y = y, x
Canon(x, y) == IF y = "h" \/ (y = "a" /\ x = "b") THEN <<y, x>> ELSE <<x, y>>

\* The body of _F_x_y(x, y): the three lookups, then the formula.
_F_x_y(x, y) ==
  After(Super(AttrName("_lng_", Canon(x, y)[1], Canon(x, y)[2])),
    After(Super(AttrName("_lnq_", Canon(x, y)[1], Canon(x, y)[2])),
      After(Prop(AttrName("_u_", Canon(x, y)[1], Canon(x, y)[2])),
        Sub(Mul(Prop("_qd"),
                Sub(Super(AttrName("_lng_", Canon(x, y)[1], Canon(x, y)[2])),
                    Super(AttrName("_lnq_", Canon(x, y)[1], Canon(x, y)[2])))),
            Prop(AttrName("_u_", Canon(x, y)[1], Canon(x, y)[2]))))))

\* hessian reads hh, ha, hb, aa, ab, bb and A, in this order
HessianE ==
  Call("hessian",
       <<_F_x_y("h", "h"), _F_x_y("h", "a"), _F_x_y("h", "b"),
         _F_x_y("a", "a"), _F_x_y("a", "b"), _F_x_y("b", "b"), Prefactor>>)

CovE == Fn1("cov", Prop("hessian"))

CorrE == Fn1("corr", Prop("cov"))

\* The body of a memoized property.
Def(name) ==
  CASE name = "Hsd" -> Hsd
    [] name = "_yd" -> _yd
    [] name = "_xd" -> _xd
    [] name = "_zd" -> _zd
    [] name = "_gammazd" -> _gammazd
    [] name = "_gammainc_z1xd" -> _gammainc_z1xd
    [] name = "_G1d_p1" -> _G1d_p1
    [] name = "_G2d_p1" -> _G2d_p1
    [] name = "_Gbard_p1" -> _Gbard_p1
    [] name = "_qd" -> _qd
    [] name = "_qd_nos" -> _qd_nos
    [] name = "_t" -> _t
    [] name = "_u" -> _u
    [] name = "_F" -> _F
    [] name = "lnL" -> lnL
    [] name = "_u_h" -> _u_h
    [] name = "_u_h_h" -> _u_h_h
    [] name = "_u_b" -> _u_b
    [] name = "_u_h_b" -> _u_h_b
    [] name = "_u_b_b" -> _u_b_b
    [] name = "hessian" -> HessianE
    [] name = "cov" -> CovE
    [] name = "corr" -> CorrE
    [] OTHER -> Lit(0)

\* The properties IdealAnalytic defines.
Known ==
  {"Hsd", "_yd", "_xd", "_zd", "_gammazd", "_gammainc_z1xd", "_G1d_p1", "_G2d_p1",
   "_Gbard_p1", "_qd", "_qd_nos", "_t", "_u", "_F", "lnL", "_u_h", "_u_h_h",
   "_u_b", "_u_h_b", "_u_b_b", "hessian", "cov", "corr"} \cup ZeroProps

(***************************************************************************)
(* Quantities of the superclass MRP_PO_Likelihood for the model            *)
(* parameters.  The mass vector has length 1, so what depends on the mass  *)
(* has a leading axis of length 1.                                         *)
(***************************************************************************)
MVec(self) == [sh |-> <<1>>, d |-> <<Num(self.mmin.v[1])>>]

ModelPars(self) ==
  Bin(",", ToNd(self.logHs), Bin(",", ToNd(self._alpha_s), ToNd(self.beta)))

ParIdx(x) == CASE x = "h" -> 1 [] x = "a" -> 2 [] OTHER -> 3

PairCode(p) == Scalar(Num(3 * ParIdx(p[1]) + ParIdx(p[2])))

SuperKnown ==
  {"Hs", "_lng", "_q"}
    \cup {AttrName("_lng_", p[1], p[2]) : p \in StoredPairs}
    \cup {AttrName("_lnq_", p[1], p[2]) : p \in StoredPairs}

SuperVal(self, name) ==
  CASE name = "Hs" -> Un("pow10", ToNd(self.logHs))
    [] name = "_lng" -> Bin("ln_mrp_shape", MVec(self), ModelPars(self))
    [] name = "_q" -> Bin("q", ToNd(self.mmin), ModelPars(self))
    [] \E p \in StoredPairs : name = AttrName("_lng_", p[1], p[2]) ->
         Bin("lng2",
             PairCode(CHOOSE p \in StoredPairs : name = AttrName("_lng_", p[1], p[2])),
             Bin(",", MVec(self), ModelPars(self)))
    [] OTHER ->
         Bin("lnq2",
             PairCode(CHOOSE p \in StoredPairs : name = AttrName("_lnq_", p[1], p[2])),
             Bin(",", ToNd(self.mmin), ModelPars(self)))

(***************************************************************************)
(* The Hessian, the covariance and the correlation, from the values their  *)
(* bodies read.  Each returns [exc, val].                                  *)
(***************************************************************************)
Ok(v) == [exc |-> "", val |-> v]

Err(e) == [exc |-> e, val |-> Zero]

\* np.array([[hh[i], ha[i], hb[i]], [ha[i], aa[i], ab[i]], [hb[i], ab[i], bb[i]]])
HessMat(hh, ha, hb, aa, ab, bb) ==
  Stack(<<Stack(<<hh, ha, hb>>), Stack(<<ha, aa, ab>>), Stack(<<hb, ab, bb>>)>>)

\* [HessMat of element i for i in range(len(hh))]
HessMats(v) ==
  Tup([i \in 1..v[1].sh[1] |->
         HessMat(Slice(v[1], i - 1), Slice(v[2], i - 1), Slice(v[3], i - 1),
                 Slice(v[4], i - 1), Slice(v[5], i - 1), Slice(v[6], i - 1))])

\* The fallback of the batched branch: A[i] times the matrix of element i.
HessPerElement(A, mats) ==
  Stack(Tup([i \in 1..Len(mats) |-> Bin("*", Slice(A, i - 1), mats[i])]))

\* The batched branch.  The first attempt multiplies the whole (N, 3, 3)
\* stack by A and is kept whenever numpy can broadcast the two shapes; the
\* per-element product runs only when that raises.
HessBatched(A, mats) ==
  IF BcOK(A.sh, <<Len(mats), 3, 3>>)
  THEN Bin("*", A, Stack(mats))
  ELSE HessPerElement(A, mats)

\* hessian, from v = <<hh, ha, hb, aa, ab, bb, A>>
hessian(self, v) ==
  Ok(Squeeze(IF self._shape # <<>>
             THEN HessBatched(v[7], HessMats(v))
             ELSE Bin("*", v[7], HessMat(v[1], v[2], v[3], v[4], v[5], v[6]))))

\* Entry (r, c), 0-based and cyclic, of a 3x3 matrix.
E3(m, r, c) == m.d[3 * (r % 3) + (c % 3) + 1]

Det3(m) ==
  LET term(j) == (E3(m, 0, j) *
                  ((E3(m, 1, j + 1) * E3(m, 2, j + 2)
                    + P * P - E3(m, 1, j + 2) * E3(m, 2, j + 1)) % P)) % P
  IN (term(0) + term(1) + term(2)) % P

\* np.linalg.inv: the argument must have at least two dimensions and be
\* square, and an exactly singular matrix is an error.
inv(m) ==
  IF Len(m.sh) < 2 \/ m.sh[Len(m.sh)] # m.sh[Len(m.sh) - 1] \/ m.sh # <<3, 3>>
  THEN [exc |-> "LinAlgError", val |-> m]
  ELSE IF \E k \in 1..9 : m.d[k] = NaN
  THEN [exc |-> "", val |-> [sh |-> <<3, 3>>, d |-> Tup([k \in 1..9 |-> NaN])]]
  ELSE IF Det3(m) = 0 THEN [exc |-> "LinAlgError", val |-> m]
  ELSE LET di == InvP[Det3(m)]
           cof(r, c) == (E3(m, c + 1, r + 1) * E3(m, c + 2, r + 2)
                         + P * P - E3(m, c + 1, r + 2) * E3(m, c + 2, r + 1)) % P
       IN [exc |-> "",
           val |-> [sh |-> <<3, 3>>,
                    d |-> Tup([k \in 1..9 |->
                                 (cof((k - 1) \div 3, (k - 1) % 3) * di) % P])]]

\* The exceptions of a sequence of results, in order.
FirstExc(rs) ==
  IF \E i \in 1..Len(rs) : rs[i].exc # ""
  THEN rs[CHOOSE i \in 1..Len(rs) :
            rs[i].exc # "" /\ \A j \in 1..(i - 1) : rs[j].exc = ""].exc
  ELSE ""

\* for h in hessian: the items along the first axis
Rows(h) == Tup([i \in 1..(IF h.sh = <<>> THEN 0 ELSE h.sh[1]) |-> Slice(h, i - 1)])

\* [np.linalg.inv(-h) for h in hessian]
InvEach(h) == Tup([i \in 1..Len(Rows(h)) |-> inv(Un("neg", Rows(h)[i]))])

\* np.array(rs), or the first exception raised while rs was built
Collect(rs) ==
  IF FirstExc(rs) # "" THEN Err(FirstExc(rs))
  ELSE Ok(Stack(Tup([i \in 1..Len(rs) |-> rs[i].val])))

cov(self, h) ==
  IF self._shape # <<>> THEN Collect(InvEach(h)) ELSE inv(Un("neg", h))

\* np.diag of a square matrix and np.outer of two vectors
diag(c) ==
  [sh |-> <<c.sh[1]>>, d |-> Tup([k \in 1..c.sh[1] |-> c.d[(k - 1) * c.sh[1] + k]])]

outer(s, t) ==
  [sh |-> <<Len(s.d), Len(t.d)>>,
   d |-> Tup([k \in 1..(Len(s.d) * Len(t.d)) |->
                TermOp("*", s.d[((k - 1) \div Len(t.d)) + 1],
                            t.d[((k - 1) % Len(t.d)) + 1])])]

\* s = np.sqrt(np.diag(c)); c / np.outer(s, s)
CorrOf(c, s) == Bin("/", c, outer(s, s))

Corr1(c) == CorrOf(c, Un("sqrt", diag(c)))

corr(self, c) ==
  IF self._shape # <<>>
  THEN Ok(Stack(Tup([i \in 1..c.sh[1] |-> Corr1(Slice(c, i - 1))])))
  ELSE Ok(Corr1(c))

(***************************************************************************)
(* The evaluator.  An evaluation state is a record [self, store, exc, ok,  *)
(* val]: the object, the values memoized so far, the exception in flight   *)
(* ("" for none), whether there is none, and the value last computed.      *)
(***************************************************************************)
Ret(r, v) == [r EXCEPT !.val = v]

Raise(r, e) == [r EXCEPT !.exc = e, !.ok = FALSE]

\* What a body leaves: its value, or its exception.
Settle(r, b) == IF b.exc # "" THEN Raise(r, b.exc) ELSE Ret(r, b.val)

\* x / y on two Python numbers raises ZeroDivisionError for y = 0; on numpy
\* arrays it yields inf or nan and only warns.
DivExc(x, y) == ~NdHasLen(x) /\ ~NdHasLen(y) /\ y.d[1] = Num(0)

\* The mutant of Key: cov is memoized under the name of hessian.
KeyShared(name) == IF name = "cov" THEN "hessian" ELSE name

\* cached_property keeps a value in the instance under the name of its
\* function.
Key(name) == name

Put(store, key, v) == (key :> v) @@ store

\* The value a body returned is memoized.
Memoize(r, name) == [r EXCEPT !.store = Put(@, Key(name), r.val)]

\* x op y, once both operands are there
Apply2(r, op, x, y) ==
  IF op = "/" /\ DivExc(x, y) THEN Raise(r, "ZeroDivisionError")
  ELSE Ret(r, Bin(op, x, y))

\* op(x), once the operand is there
Apply1(r, op, x) ==
  CASE op = "squeeze" -> Ret(r, Squeeze(x))
    [] op = "cov" -> Settle(r, cov(r.self, x))
    [] op = "corr" -> Settle(r, corr(r.self, x))
    [] OTHER -> Ret(r, Un(op, x))

\* f(v[1], ..., v[n]), once the arguments are there
ApplyN(r, f, v) ==
  IF f = "hessian" THEN Settle(r, hessian(r.self, v))
  ELSE Settle(r, _hyperReg(<<v[1], v[2]>>, <<v[3], v[4]>>, v[5]))

\* The value of the expression e, from a state with no exception in flight.
\* Reading a property returns the memoized value if there is one; otherwise
\* its body runs and the value it returns is memoized.  <<"args", es, vs>>
\* evaluates the expressions es in order, after the values vs.
RECURSIVE Eval(_, _)
Eval(st, e) ==
  CASE e[1] = "lit" -> Ret(st, Scalar(Num(e[2])))
    [] e[1] = "attr" -> Ret(st, ToNd(st.self[e[2]]))
    [] e[1] = "super" /\ e[2] \in SuperKnown -> Ret(st, SuperVal(st.self, e[2]))
    [] e[1] = "super" /\ e[2] \notin SuperKnown -> Raise(st, "AttributeError")
    [] e[1] = "prop" /\ e[2] \notin Known -> Raise(st, "AttributeError")
    [] e[1] = "prop" /\ e[2] \in Known /\ Key(e[2]) \in DOMAIN st.store ->
         Ret(st, st.store[Key(e[2])])
    [] e[1] = "prop" /\ e[2] \in Known /\ Key(e[2]) \notin DOMAIN st.store ->
         LET r == Eval(st, Def(e[2]))
         IN IF r.ok THEN Memoize(r, e[2]) ELSE r
    [] e[1] = "fn1" ->
         LET r == Eval(st, e[3])
         IN IF r.ok THEN Apply1(r, e[2], r.val) ELSE r
    [] e[1] = "fn2" ->
         LET r1 == Eval(st, e[3])
         IN IF r1.ok
            THEN LET r2 == Eval(r1, e[4])
                 IN IF r2.ok THEN Apply2(r2, e[2], r1.val, r2.val) ELSE r2
            ELSE r1
    [] e[1] = "after" ->
         LET r == Eval(st, e[2])
         IN IF r.ok THEN Eval(r, e[3]) ELSE r
    [] e[1] = "call" ->
         LET r == Eval(st, <<"args", e[3], <<>>>>)
         IN IF r.ok THEN ApplyN(r, e[2], r.val) ELSE r
    [] e[1] = "args" /\ e[2] = <<>> -> Ret(st, e[3])
    [] e[1] = "args" /\ e[2] # <<>> ->
         LET r == Eval(st, Head(e[2]))
         IN IF r.ok THEN Eval(r, <<"args", Tail(e[2]), Append(e[3], r.val)>>)
            ELSE r

\* getattr(self, name)
Get(st, name) == Eval(st, Prop(name))

(***************************************************************************)
(* The state: one IdealAnalytic instance from construction on.             *)
(***************************************************************************)
VARIABLES
  pc,      \* "new" before the constructor ran, then "built" or "failed"
  args,    \* the arguments the caller gave to the constructor
  obj,     \* the attributes of the instance
  super,   \* what the constructor forwarded to the superclass
  store,   \* the memoized properties of the instance
  last,    \* the operation that ran last, and how it ended
  fit,     \* the call of get_fit_analytic: its arguments and what it returned
  b13      \* the call of mrp_b13: its arguments and what it handed to core.mrp

vars == <<pc, args, obj, super, store, last, fit, b13>>

NoStore == [n \in {} |-> Zero]

\* get_fit_analytic has not been called.
NoFit == [pc |-> "idle", args |-> <<>>, res |-> <<>>, fit |-> <<>>]

\* mrp_b13 has not been called.
NoB13 == [pc |-> "idle", args |-> <<>>, exc |-> "", params |-> <<>>, out |-> <<>>]

NoArgs ==
  [n |-> 0, lnA |-> PyNone, V |-> PyNone, logHsd |-> PyNone, alphad |-> PyNone,
   betad |-> PyNone, kwargs |-> [n \in {} |-> PyNone]]

Init ==
  /\ pc = "new"
  /\ args = NoArgs
  /\ obj = Blank
  /\ super = [called |-> FALSE, logm |-> PyNone, keys |-> {}]
  /\ store = NoStore
  /\ last = [op |-> "", exc |-> "", val |-> Zero]
  /\ fit = NoFit
  /\ b13 = NoB13

\* The inputs of the constructor.  n = 0 is an instance of scalar parameters,
\* n >= 1 one of n parameter sets.
Const(n, c) == [i \in 1..n |-> c]

Ramp(n, c) == [i \in 1..n |-> c + i - 1]

ModelInputs(n) ==
  IF n = 0
  THEN {[logHs |-> PyNum(1), alpha |-> PyNum(1), beta |-> PyNum(b)] : b \in {0, 2}}
  ELSE {[logHs |-> PyArr(Const(n, 1)), alpha |-> PyArr(Ramp(n, 1)), beta |-> PyArr(b)] :
          b \in {Const(n, 2), Ramp(n, 0)}}

ScaleInputs == {PyNum(0), PyNum(1)}

\* logHsd, alphad, betad as the caller passes them: none of them, one of them
\* as 0, one of them as a non-zero number, or betad as an array.
Data(h, a, b) == [logHsd |-> h, alphad |-> a, betad |-> b]

DataInputs ==
  {Data(PyNone, PyNone, PyNone),
   Data(PyNum(0), PyNone, PyNone), Data(PyNum(3), PyNone, PyNone),
   Data(PyNone, PyNum(0), PyNone), Data(PyNone, PyNum(3), PyNone),
   Data(PyNone, PyNone, PyNum(0)), Data(PyNone, PyNone, PyNum(3)),
   Data(PyNone, PyNone, PyArr(<<3, 3>>))}

LogMminInput == PyNum(1)

Kwargs(m, scale, hasMmin) ==
  [key \in {"logHs", "alpha", "beta", "scale"}
           \cup (IF hasMmin THEN {"log_mmin"} ELSE {}) |->
     CASE key = "logHs" -> m.logHs
       [] key = "alpha" -> m.alpha
       [] key = "beta" -> m.beta
       [] key = "scale" -> scale
       [] OTHER -> LogMminInput]

\* IdealAnalytic(lnA, V, logHsd, alphad, betad, **kwargs)
Construct ==
  /\ pc = "new"
  /\ \E n \in 0..MaxBatch, hasMmin \in BOOLEAN, scale \in ScaleInputs,
        d \in DataInputs :
       \E m \in ModelInputs(n) :
         LET kw == Kwargs(m, scale, hasMmin)
             r == IdealAnalyticInit(PyNum(DefaultLnA), PyNum(DefaultV),
                                    d.logHsd, d.alphad, d.betad, kw)
         IN /\ args' = [n |-> n, lnA |-> PyNum(DefaultLnA), V |-> PyNum(DefaultV),
                        logHsd |-> d.logHsd, alphad |-> d.alphad,
                        betad |-> d.betad, kwargs |-> kw]
            /\ obj' = r.self
            /\ super' = r.super
            /\ pc' = IF r.exc = "" THEN "built" ELSE "failed"
            /\ last' = [op |-> "__init__", exc |-> r.exc, val |-> Zero]
            /\ UNCHANGED <<store, fit, b13>>

\* The evaluation state an access starts from.
Start == [self |-> obj, store |-> store, exc |-> "", ok |-> TRUE, val |-> Zero]

\* What an access leaves behind.
Finish(op, r) ==
  /\ obj' = r.self
  /\ store' = r.store
  /\ last' = [op |-> op, exc |-> r.exc, val |-> IF r.exc = "" THEN r.val ELSE Zero]
  /\ UNCHANGED <<pc, args, super, fit, b13>>

Get_zd == pc = "built" /\ Finish("_zd", Get(Start, "_zd"))

Get_t == pc = "built" /\ Finish("_t", Get(Start, "_t"))

GetLnL == pc = "built" /\ Finish("lnL", Get(Start, "lnL"))

GetHessian == pc = "built" /\ Finish("hessian", Get(Start, "hessian"))

GetCov == pc = "built" /\ Finish("cov", Get(Start, "cov"))

GetCorr == pc = "built" /\ Finish("corr", Get(Start, "corr"))

Next ==
  \/ Construct
  \/ Get_zd
  \/ Get_t
  \/ GetLnL
  \/ GetHessian
  \/ GetCov
  \/ GetCorr

Spec == Init /\ [][Next]_vars

(***************************************************************************)
(* simple_fits: get_fit_analytic and fit_mrp_analytic.                     *)
(***************************************************************************)
\* np.inf as an uncertainty: the constraint is not used
PyInf == [k |-> "inf", v |-> <<>>]

\* What scipy.optimize.minimize returns: an object with the attribute x.
OptimizeResult(x) == [k |-> "OptimizeResult", x |-> x]

\* A Python list, or the array np.concatenate or res.x gives: indexable, and
\* without the attribute x.
PyList(v) == [k |-> "list", x |-> <<>>, v |-> v]

NdArray(v) == [k |-> "ndarray", x |-> <<>>, v |-> v]

\* m.min() and m.max() of a non-empty array of masses
ArrMin(m) == CHOOSE x \in {m[k] : k \in 1..Len(m)} : \A k \in 1..Len(m) : x <= m[k]

ArrMax(m) == CHOOSE x \in {m[k] : k \in 1..Len(m)} : \A k \in 1..Len(m) : x >= m[k]

log10min(m) == TermUn("log10", Num(ArrMin(m)))

log10max(m) == TermUn("log10", Num(ArrMax(m)))

\* simps(dndm * m ** s, m)
RECURSIVE simps(_, _, _)
simps(dndm, m, s) ==
  IF m = <<>> THEN Num(0)
  ELSE TermOp("+", TermOp("*", Num(Head(dndm)), TermOp("**", Num(Head(m)), Num(s))),
              simps(Tail(dndm), Tail(m), s))

\* core.mrp(m, logHs, alpha, beta, mmin, mmax, norm): the curve over m
mrp(m, logHs, alpha, beta, mmin, mmax, norm) ==
  [k \in 1..Len(m) |->
     TermOp("mrp", Num(m[k]),
            TermOp(",", TermOp(",", TermOp(",", logHs, alpha), TermOp(",", beta, norm)),
                   TermOp(",", mmin, mmax)))]

\* core.pdf_norm(logHs, alpha, beta, mmin, mmax)
pdf_norm(logHs, alpha, beta, mmin, mmax) ==
  TermOp("pdf_norm", TermOp(",", TermOp(",", logHs, alpha), beta), TermOp(",", mmin, mmax))

\* core.A_rhoc(logHs, alpha, beta, Om0, rhoc)
A_rhoc(logHs, alpha, beta) ==
  TermOp("A_rhoc", TermOp(",", logHs, alpha), beta)

\* core.get_alpha_and_A(logHs, beta, mmin, integ, Om0, s, rhoc): the pair
\* (A, alpha)
get_alpha_and_A(logHs, beta, mmin, integ) ==
  <<TermOp("alpha_and_A", TermOp(",", logHs, beta), TermOp(",", mmin, integ)),
    TermOp("alpha_and_A", TermOp(",", mmin, integ), TermOp(",", logHs, beta))>>

\* The data as fit_mrp_analytic binds them: by position, else by keyword.
MassOf(a) == IF Len(a.posargs) > 0 THEN a.posargs[1] ELSE a.kwargs["m"]

DndmOf(a) == IF Len(a.posargs) > 1 THEN a.posargs[2] ELSE a.kwargs["dndm"]

\* mass_weighted_integ = simps(dndm * m ** s, m)
mass_weighted_integ(a) == simps(DndmOf(a), MassOf(a), a.s)

\* Arhomean(x) and Ainteg(x) of fit_mrp_analytic
Arhomean(x) == TermUn("log", A_rhoc(x[1], x[2], x[3]))

Ainteg(a, x) ==
  TermOp("-",
         TermUn("log", TermOp("*", mass_weighted_integ(a),
                              pdf_norm(x[1], TermOp("+", x[2], Num(a.s)), x[3],
                                       log10min(MassOf(a)), a.mmax))),
         TermOp("*", TermOp("*", Num(a.s), x[1]), TermUn("log", Num(10))))

\* The objective fit_mrp_analytic minimizes and the length of its starting
\* point, by constraint regime.
Regime(a) ==
  IF a.sigma_integ = PyNum(0) /\ a.sigma_rhomean = PyNum(0)
  THEN [model |-> "model_2p", p0 |-> 2]
  ELSE IF a.sigma_integ = PyNum(0) THEN [model |-> "model_3p_integ0", p0 |-> 3]
  ELSE IF a.sigma_rhomean = PyNum(0) THEN [model |-> "model_3p_rhomean0", p0 |-> 3]
  ELSE [model |-> "model_4p", p0 |-> 4]

\* What fit_mrp_analytic returns (out), given the result res of minimize.
fit_mrp_analytic_out(a, res) ==
  CASE Regime(a).model = "model_2p" ->
         LET Aa == get_alpha_and_A(res.x[1], res.x[2], log10min(MassOf(a)),
                                   mass_weighted_integ(a))
         IN PyList(<<res.x[1], Aa[2], res.x[2], TermUn("log", Aa[1])>>)
    [] Regime(a).model = "model_3p_integ0" ->
         NdArray(res.x \o <<Ainteg(a, res.x)>>)
    [] Regime(a).model = "model_3p_rhomean0" ->
         NdArray(res.x \o <<Arhomean(res.x)>>)
    [] OTHER -> NdArray(res.x)

\* get_fit_analytic: the pair (res, fit) it returns, res being what
\* fit_mrp_analytic returned.
get_fit_analytic(a, minres) ==
  LET res == fit_mrp_analytic_out(a, minres)
      m == IF Len(a.posargs) > 0 THEN a.posargs[1] ELSE a.kwargs["m"]
  IN [res |-> res,
      fit |-> mrp(m, res.v[1], res.v[2], res.v[3], log10min(m), log10max(m),
                  TermUn("exp", res.v[4]))]

\* The inputs: the data, the two uncertainties, and the point the minimizer
\* ends at, which is any point of the right length.
MassInputs == {[m |-> <<1, 2>>, dndm |-> <<3, 2>>], [m |-> <<4, 2, 3>>, dndm |-> <<1, 3, 2>>]}

SigmaInputs == {PyNum(0), PyNum(1), PyInf}

XInputs(n) == [1..n -> {Num(1), Num(2)}]

NoKwargs == [key \in {} |-> <<>>]

\* The data given by position, or by keyword
CallForms(d) ==
  {[posargs |-> <<d.m, d.dndm>>, kwargs |-> NoKwargs],
   [posargs |-> <<>>, kwargs |-> [key \in {"m", "dndm"} |-> d[key]]]}

\* get_fit_analytic(m, dndm, sigma_rhomean=.., sigma_integ=..)
GetFitAnalytic ==
  /\ fit.pc = "idle"
  /\ \E d \in MassInputs, si \in SigmaInputs, sr \in SigmaInputs :
       \E c \in CallForms(d) :
         LET a == [posargs |-> c.posargs, kwargs |-> c.kwargs, s |-> 1, mmax |-> NaN,
                   sigma_integ |-> si, sigma_rhomean |-> sr]
         IN \E x \in XInputs(Regime(a).p0) :
              LET r == get_fit_analytic(a, OptimizeResult(x))
              IN fit' = [pc |-> "returned", args |-> a @@ [minimized |-> x],
                         res |-> r.res, fit |-> r.fit]
  /\ UNCHANGED <<pc, args, obj, super, store, last, b13>>

NextFit == GetFitAnalytic

SpecFit == Init /\ [][NextFit]_vars

(***************************************************************************)
(* The second partials of F, requested one at a time.                      *)
(***************************************************************************)
\* h, a, b: the scale, the slope and the cutoff shape
Pars == {"h", "a", "b"}

\* self._F_x_y(x, y) on a built instance
Get_F_x_y ==
  /\ pc = "built"
  /\ \E x \in Pars, y \in Pars :
       Finish(AttrName("_F_", x, y), Eval(Start, _F_x_y(x, y)))

\* IdealAnalytic(**kwargs): logHsd, alphad and betad are left to their
\* default None, so the data parameters are the model parameters.
ConstructNoData ==
  /\ Construct
  /\ args'.logHsd = PyNone /\ args'.alphad = PyNone /\ args'.betad = PyNone

NextPartial ==
  \/ ConstructNoData
  \/ Get_F_x_y

SpecPartial == Init /\ [][NextPartial]_vars

(***************************************************************************)
(* physical_dependence: the MRP parameters of Behroozi+13.                 *)
(***************************************************************************)
\* The decimal literal n / d
Rat(n, d) == TermOp("/", Num(n), Num(d))

\* The keyword defaults of the four formulas.
LogHsCoeffs ==
  [mu |-> Rat(12214, 1000), sd |-> Rat(16385, 10000), a |-> Rat(58562, 1000000),
   b |-> Rat(14394, 10000), c |-> Rat(39111, 100000), d |-> Rat(11159, 100000),
   e |-> Rat(56010, 1000000), f |-> Rat(42444, 100000), g |-> Rat(90369, 100000),
   h |-> Rat(29417, 10000000)]

AlphaCoeffs ==
  [mu |-> Rat(-19097, 10000), sd |-> Rat(26906, 1000000), a |-> Rat(26172, 10000),
   b |-> Rat(206023, 100000), c |-> Rat(14791, 10000), d |-> Rat(22142, 10000),
   e |-> Rat(53400, 100000), f |-> Rat(270981, 100000), g |-> Rat(19690, 100000)]

BetaCoeffs ==
  [mu |-> Rat(49961, 100000), sd |-> Rat(12913, 100000), a |-> Rat(75217, 10000),
   b |-> Rat(18866, 100000), c |-> Rat(36891, 100000), d |-> Rat(71716, 1000000),
   e |-> Rat(29092, 10000000), f |-> Rat(34453, 10000), g |-> Rat(71052, 100000)]

LogACoeffs ==
  [mu |-> Rat(-33268, 1000), sd |-> Rat(73593, 10000), a |-> Rat(29187, 10000000),
   b |-> Rat(15541, 100000), c |-> Rat(14657, 10000), d |-> Rat(55025, 1000000),
   e |-> Rat(24068, 100000), f |-> Rat(33620, 100000)]

\* The body of logHs_b13:
\* mu + sd*(a + b*sig8 + c*Om0 + d*sig8*z + e*z**2 + f*sig8*Om0*z - g*z - h*z**3)
LogHsE ==
  LET s1 == Add(Attr("a"), Mul(Attr("b"), Attr("sig8")))
      s2 == Add(s1, Mul(Attr("c"), Attr("Om0")))
      s3 == Add(s2, Mul(Mul(Attr("d"), Attr("sig8")), Attr("z")))
      s4 == Add(s3, Mul(Attr("e"), Pow(Attr("z"), Lit(2))))
      s5 == Add(s4, Mul(Mul(Mul(Attr("f"), Attr("sig8")), Attr("Om0")), Attr("z")))
      s6 == Sub(s5, Mul(Attr("g"), Attr("z")))
      s7 == Sub(s6, Mul(Attr("h"), Pow(Attr("z"), Lit(3))))
  IN Add(Attr("mu"), Mul(Attr("sd"), s7))

\* The body of alpha_b13:
\* mu + sd*(a*Om0 + b*sig8 + c*d**Om0*e**z - f - g*z)
AlphaE ==
  LET s1 == Add(Mul(Attr("a"), Attr("Om0")), Mul(Attr("b"), Attr("sig8")))
      s2 == Add(s1, Mul(Mul(Attr("c"), Pow(Attr("d"), Attr("Om0"))),
                        Pow(Attr("e"), Attr("z"))))
      s3 == Sub(s2, Attr("f"))
      s4 == Sub(s3, Mul(Attr("g"), Attr("z")))
  IN Add(Attr("mu"), Mul(Attr("sd"), s4))

\* The body of beta_b13:
\* mu + sd*(a*sig8*Om0 - b - c*z - d*e**z - f*Om0*z*g**z)
BetaE ==
  LET s1 == Sub(Mul(Mul(Attr("a"), Attr("sig8")), Attr("Om0")), Attr("b"))
      s2 == Sub(s1, Mul(Attr("c"), Attr("z")))
      s3 == Sub(s2, Mul(Attr("d"), Pow(Attr("e"), Attr("z"))))
      s4 == Sub(s3, Mul(Mul(Mul(Attr("f"), Attr("Om0")), Attr("z")),
                        Pow(Attr("g"), Attr("z"))))
  IN Add(Attr("mu"), Mul(Attr("sd"), s4))

\* The body of logA_b13:
\* mu + sd*(z + a*z**3 - b - c*sig8 - d*z**2 - e*sig8*z - f*Om0*z)
LogAE ==
  LET s1 == Add(Attr("z"), Mul(Attr("a"), Pow(Attr("z"), Lit(3))))
      s2 == Sub(s1, Attr("b"))
      s3 == Sub(s2, Mul(Attr("c"), Attr("sig8")))
      s4 == Sub(s3, Mul(Attr("d"), Pow(Attr("z"), Lit(2))))
      s5 == Sub(s4, Mul(Mul(Attr("e"), Attr("sig8")), Attr("z")))
      s6 == Sub(s5, Mul(Mul(Attr("f"), Attr("Om0")), Attr("z")))
  IN Add(Attr("mu"), Mul(Attr("sd"), s6))

\* The names a call f(z, Om0, sig8, **kw) binds: a keyword of kw replaces
\* the default of f.
Bind(defaults, z, Om0, sig8, kw) ==
  [n \in DOMAIN defaults \cup {"z", "Om0", "sig8"} |->
     PyNum(CASE n = "z" -> z
             [] n = "Om0" -> Om0
             [] n = "sig8" -> sig8
             [] n \in DOMAIN kw -> kw[n]
             [] OTHER -> defaults[n])]

\* f(z, Om0, sig8, **kw) for the formula f of the given body and defaults:
\* a keyword f does not take is a TypeError.
CallB13(body, defaults, z, Om0, sig8, kw) ==
  IF DOMAIN kw \subseteq DOMAIN defaults
  THEN Ok(Eval([self |-> Bind(defaults, z, Om0, sig8, kw), store |-> NoStore,
                exc |-> "", ok |-> TRUE, val |-> Zero], body).val.d[1])
  ELSE Err("TypeError")

logHs_b13(z, Om0, sig8, kw) == CallB13(LogHsE, LogHsCoeffs, z, Om0, sig8, kw)

alpha_b13(z, Om0, sig8, kw) == CallB13(AlphaE, AlphaCoeffs, z, Om0, sig8, kw)

beta_b13(z, Om0, sig8, kw) == CallB13(BetaE, BetaCoeffs, z, Om0, sig8, kw)

logA_b13(z, Om0, sig8, kw) == CallB13(LogAE, LogACoeffs, z, Om0, sig8, kw)

\* What a call that evaluates rs in order returns: the tuple of their
\* values, unless one of them raised.
TupleOf(rs) == [exc |-> FirstExc(rs), val |-> [i \in 1..Len(rs) |-> rs[i].val]]

\* mrp_params_b13(z, Om0, sig8, Hs_kw, alpha_kw, beta_kw, logA_kw): the four
\* formulas are called in this order, each with its own dictionary.
mrp_params_b13(z, Om0, sig8, Hs_kw, alpha_kw, beta_kw, logA_kw) ==
  TupleOf(<<logHs_b13(z, Om0, sig8, Hs_kw), alpha_b13(z, Om0, sig8, alpha_kw),
            beta_b13(z, Om0, sig8, beta_kw), logA_b13(z, Om0, sig8, logA_kw)>>)

\* if norm is None: norm = np.exp(logA)
NormOf(norm, logA) ==
  IF norm = PyNone THEN TermUn("exp", logA) ELSE Num(norm.v[1])

\* hs, alpha, beta, logA = p; then mrp(m, hs, alpha, beta, mmin, mmax, norm):
\* the parameters handed to core.mrp, and the curve it returns.
MrpAt(m, p, mmin, mmax, norm) ==
  IF p.exc # "" THEN [exc |-> p.exc, params |-> <<>>, out |-> <<>>]
  ELSE [exc |-> "",
        params |-> <<p.val[1], p.val[2], p.val[3], NormOf(norm, p.val[4])>>,
        out |-> mrp(m, p.val[1], p.val[2], p.val[3], mmin, mmax,
                    NormOf(norm, p.val[4]))]

\* mrp_b13(m, z, Om0, sig8, Hs_kw, alpha_kw, beta_kw, logA_kw, mmin, mmax, norm)
mrp_b13(m, z, Om0, sig8, Hs_kw, alpha_kw, beta_kw, logA_kw, mmin, mmax, norm) ==
  MrpAt(m, mrp_params_b13(z, Om0, sig8, beta_kw, alpha_kw, Hs_kw, logA_kw),
        mmin, mmax, norm)

\* The inputs: a redshift, the default Om0 and sig8, and for each formula
\* no override, or one of its offset mu; Hs_kw may also override h, a
\* coefficient only logHs_b13 has.
NoOverride == [key \in {} |-> Num(0)]

KwInputs == {NoOverride, [key \in {"mu"} |-> Num(2)]}

HsKwInputs == KwInputs \cup {[key \in {"h"} |-> Num(1)]}

RedshiftInputs == {Num(0), Num(1)}

NormInputs == {PyNone, PyNum(1)}

CurveInputs == {<<1, 2>>, <<4, 2, 3>>}

\* The call a of mrp_b13 has ended as r.
Called(a, r) ==
  [pc |-> IF r.exc = "" THEN "returned" ELSE "raised", args |-> a,
   exc |-> r.exc, params |-> r.params, out |-> r.out]

\* The arguments of a call with the default Om0 and sig8
B13Args(m, z, norm, Hs_kw, alpha_kw, beta_kw, logA_kw) ==
  [m |-> m, z |-> z, Om0 |-> Rat(315, 1000), sig8 |-> Rat(829, 1000),
   Hs_kw |-> Hs_kw, alpha_kw |-> alpha_kw, beta_kw |-> beta_kw,
   logA_kw |-> logA_kw, mmin |-> log10min(m), mmax |-> log10max(m), norm |-> norm]

\* mrp_b13(**a)
MrpB13Of(a) ==
  mrp_b13(a.m, a.z, a.Om0, a.sig8, a.Hs_kw, a.alpha_kw, a.beta_kw, a.logA_kw,
          a.mmin, a.mmax, a.norm)

\* mrp_b13(m, z, Om0, sig8, Hs_kw, alpha_kw, beta_kw, logA_kw, mmin, mmax, norm)
MrpB13 ==
  /\ b13.pc = "idle"
  /\ \E m \in CurveInputs, z \in RedshiftInputs, norm \in NormInputs,
        Hs_kw \in HsKwInputs, alpha_kw \in KwInputs, beta_kw \in KwInputs,
        logA_kw \in KwInputs :
       \E a \in {B13Args(m, z, norm, Hs_kw, alpha_kw, beta_kw, logA_kw)} :
         b13' = Called(a, MrpB13Of(a))
  /\ UNCHANGED <<pc, args, obj, super, store, last, fit>>

NextB13 == MrpB13

SpecB13 == Init /\ [][NextB13]_vars

(***************************************************************************)
(* The instance of one batch element, for the comparisons below.           *)
(***************************************************************************)
Fresh(self) ==
  [self |-> self, store |-> NoStore, exc |-> "", ok |-> TRUE, val |-> Zero]

Pick(p, i) == IF p.k = "arr" THEN PyNum(p.v[i]) ELSE p

ElemKwargs(kw, i) == [key \in DOMAIN kw |-> Pick(kw[key], i)]

\* getattr(IdealAnalytic(... element i of every array parameter ...), name)
ElemGet(a, i, name) ==
  Get(Fresh(IdealAnalyticInit(a.lnA, a.V, a.logHsd, a.alphad, a.betad,
                              ElemKwargs(a.kwargs, i)).self), name)

\* The instance was built from arrays of n >= 1 parameter sets.
Batched == pc = "built" /\ args.n >= 1

ScalarBuilt == pc = "built" /\ args.n = 0

\* C1: the t term and lnL of a batch of N parameter sets are arrays of length
\* N that equal, element by element, the values of the N scalar evaluations
\* (wherever the scalar evaluation returns a value).
C1_BatchedEqualsElementwise ==
  (Batched /\ last.op \in {"_t", "lnL"}) =>
    /\ last.exc = ""
    /\ last.val.sh = <<args.n>>
    /\ \A i \in 1..args.n :
         LET e == ElemGet(args, i, last.op)
         IN e.exc = "" => last.val.d[i] = e.val.d[1]

\* The values hessian reads, in the state the instance is in.
HessianInputs == Eval(Start, <<"args", HessianE[3], <<>>>>).val

\* Entry (r, c), 0-based, of matrix i (1-based) of an array of 3x3 matrices.
EntryOf(h, i, r, c) == h.d[9 * (i - 1) + 3 * r + c + 1]

\* C2: the hessian of a batch of N >= 1 parameter sets is an array of N 3x3
\* matrices, and matrix i is the prefactor of element i times the matrix of
\* the second partials of element i.
C2_HessianPerElement ==
  (Batched /\ last.op = "hessian" /\ last.exc = "") =>
    /\ last.val.sh = <<args.n, 3, 3>>
    /\ LET v == HessianInputs
       IN \A i \in 1..args.n : \A r, c \in 0..2 :
            EntryOf(last.val, i, r, c) =
              TermOp("*", v[7].d[i], E3(HessMats(v)[i], r, c))

\* m1 @ m2 for two 3x3 matrices
MatMul(m1, m2) ==
  [sh |-> <<3, 3>>,
   d |-> [k \in 1..9 |->
            (E3(m1, (k - 1) \div 3, 0) * E3(m2, 0, (k - 1) % 3)
             + E3(m1, (k - 1) \div 3, 1) * E3(m2, 1, (k - 1) % 3)
             + E3(m1, (k - 1) \div 3, 2) * E3(m2, 2, (k - 1) % 3)) % P]]

Identity3 == [sh |-> <<3, 3>>, d |-> <<1, 0, 0, 0, 1, 0, 0, 0, 1>>]

Finite(m) == \A k \in 1..Len(m.d) : m.d[k] # NaN

\* c is the inverse of -h
IsInverse(c, h) == Finite(h) => MatMul(c, Un("neg", h)) = Identity3

\* C3: np.linalg.inv is applied to 3x3 matrices only, once for a scalar
\* instance and once per batch element for a batched one, and cov (cov[i]) is
\* the inverse of -hessian (-hessian[i]).
C3_CovIsInverse ==
  (pc = "built" /\ last.op = "cov" /\ "hessian" \in DOMAIN store) =>
    LET h == store["hessian"]
    IN IF args.n = 0
       THEN /\ h.sh = <<3, 3>>
            /\ last.exc = "" => IsInverse(last.val, h)
       ELSE /\ Len(Rows(h)) = args.n
            /\ \A i \in 1..Len(Rows(h)) : Rows(h)[i].sh = <<3, 3>>
            /\ last.exc = "" =>
                 /\ last.val.sh = <<args.n, 3, 3>>
                 /\ \A i \in 1..args.n : IsInverse(Slice(last.val, i - 1), Rows(h)[i])

\* C4: an instance of scalar parameters yields a scalar lnL, and an instance
\* of N >= 1 parameter sets yields an array lnL of length N.
C4_LnLShape ==
  (pc = "built" /\ last.op = "lnL") =>
    /\ (args.n = 0 /\ last.exc = "") => last.val.sh = <<>>
    /\ args.n >= 1 => (last.exc = "" /\ last.val.sh = <<args.n>>)

\* The constructor was called with the truncation mass.
GivenMmin == pc # "new" /\ "log_mmin" \in DOMAIN args.kwargs

\* The attribute holds the caller's value if there is one, else the model's.
DataParamIs(given, attr, model) == attr = (IF given.k # "none" THEN given ELSE model)

\* C5: each of logHsd, alphad, betad equals the value the caller passed
\* whenever one was passed (0 and arrays included), and equals logHs, alpha,
\* beta when none was passed.
C5_DataParams ==
  GivenMmin =>
    /\ pc = "built"
    /\ DataParamIs(args.logHsd, obj.logHsd, args.kwargs["logHs"])
    /\ DataParamIs(args.alphad, obj.alphad, args.kwargs["alpha"])
    /\ DataParamIs(args.betad, obj.betad, args.kwargs["beta"])

\* C6: without log_mmin the constructor raises before the superclass
\* initialiser runs and before any attribute is set; with log_mmin, the
\* superclass receives it as the length-1 mass vector and not as a keyword.
C6_MissingMmin ==
  pc # "new" =>
    IF "log_mmin" \notin DOMAIN args.kwargs
    THEN /\ pc = "failed"
         /\ last = [op |-> "__init__", exc |-> "ValueError", val |-> Zero]
         /\ ~super.called
         /\ obj = Blank
    ELSE /\ super.called
         /\ "log_mmin" \notin super.keys
         /\ super.keys = DOMAIN args.kwargs \ {"log_mmin"}
         /\ super.logm = PyArr(<<args.kwargs["log_mmin"].v[1]>>)
         /\ {"logm", "mmin", "V", "lnA"} \subseteq obj.set

C6_Witness ==
  /\ pc = "failed"
  /\ "log_mmin" \notin DOMAIN args.kwargs
  /\ last.exc = "ValueError"

\* p is 0, or an array with a 0 in it
HasZero(p) == p.k # "none" /\ \E i \in 1..Len(p.v) : p.v[i] = 0

\* The caller gave a cutoff-shape of 0, as beta or as betad.
ZeroCutoff == HasZero(args.kwargs["beta"]) \/ HasZero(args.betad)

\* C7: with a cutoff-shape of 0, the evaluation of z and of lnL ends in a
\* raised numeric fault and returns no value.
C7_ZeroCutoffRaises ==
  (pc = "built" /\ ZeroCutoff /\ last.op \in {"_zd", "lnL"}) =>
    last.exc = "ZeroDivisionError"

\* The 3x3 matrix m is symmetric.
Symmetric(m) == \A r, c \in 0..2 : E3(m, r, c) = E3(m, c, r)

\* C8: the Hessian of a scalar instance is symmetric, and each of the 3x3
\* matrices of the Hessian of a batched instance is symmetric.
C8_HessianSymmetric ==
  (pc = "built" /\ last.op = "hessian" /\ last.exc = "") =>
    IF args.n = 0 THEN Symmetric(last.val)
    ELSE \A i \in 1..(Len(last.val.d) \div 9) :
           Symmetric([sh |-> <<3, 3>>, d |-> SubSeq(last.val.d, 9 * i - 8, 9 * i)])

\* The lists _t hands to _hyperReg, once _zd and _xd are memoized.
HyperCall ==
  _hyperReg(<<store["_zd"], store["_zd"]>>,
            <<Bin("+", store["_zd"], One), Bin("+", store["_zd"], One)>>,
            Un("neg", store["_xd"]))

\* The access that ran last ended as the same access ends on a fresh instance
\* of the same parameters, and the value it returned is memoized.
AsOnFresh ==
  (pc = "built" /\ last.op # "__init__") =>
    LET first == Get(Fresh(obj), last.op)
    IN /\ last.exc = first.exc
       /\ last.exc = "" =>
            /\ last.val = first.val
            /\ last.op \in DOMAIN store
            /\ store[last.op] = last.val

\* _hyperReg leaves its argument lists as they were.
HyperArgsKept ==
  (pc = "built" /\ {"_zd", "_xd"} \subseteq DOMAIN store) =>
    /\ HyperCall.a = <<store["_zd"], store["_zd"]>>
    /\ HyperCall.b = <<Bin("+", store["_zd"], One), Bin("+", store["_zd"], One)>>

\* An access assigns no parameter and keeps every memoized value.
KeepsAll ==
  pc = "built" =>
    /\ obj' = obj
    /\ \A n \in DOMAIN store : n \in DOMAIN store' /\ store'[n] = store[n]

FittedParams(a) ==
  LET x == a.minimized
  IN CASE Regime(a).model = "model_2p" ->
            LET Aa == get_alpha_and_A(x[1], x[2], log10min(MassOf(a)), mass_weighted_integ(a))
            IN <<x[1], Aa[2], x[2], TermUn("log", Aa[1])>>
       [] Regime(a).model = "model_3p_integ0" -> <<x[1], x[2], x[3], Ainteg(a, x)>>
       [] Regime(a).model = "model_3p_rhomean0" -> <<x[1], x[2], x[3], Arhomean(x)>>
       [] OTHER -> x

\* fit is the MRP curve over m at the fitted parameters.
FitIsCurve ==
  LET q == FittedParams(fit.args)
      m == MassOf(fit.args)
  IN fit.fit = mrp(m, q[1], q[2], q[3], log10min(m), log10max(m), TermUn("exp", q[4]))

\* C10: get_fit_analytic returns (res, fit) where res is the result of
\* minimize, whose res.x holds the fitted parameters, and fit is the MRP curve
\* over m at the fitted parameters, in each of the four regimes.
C10_ReturnsMinimizeResult ==
  fit.pc = "returned" =>
    /\ fit.res.k = "OptimizeResult"
    /\ fit.res.x = fit.args.minimized
    /\ FitIsCurve

\* The pair whose closed form is stored for the request (x, y): the request
\* is swapped exactly when y is h or it is (b, a).
StoredFor(x, y) ==
  IF y = "h" \/ <<x, y>> = <<"b", "a">> THEN <<y, x>> ELSE <<x, y>>

\* q_data * (lng_xy - lnq_xy) - u_xy for the pair p
SecondPartial(p) ==
  Sub(Mul(Prop("_qd"), Sub(Super(AttrName("_lng_", p[1], p[2])),
                           Super(AttrName("_lnq_", p[1], p[2])))),
      Prop(AttrName("_u_", p[1], p[2])))

\* No second partial of u is memoized under a pair that is not stored.
OnlyStoredPairs ==
  \A p \in (Pars \X Pars) \ StoredPairs :
    AttrName("_u_", p[1], p[2]) \notin DOMAIN store

\* The request (x, y) that ran last ended as the stored pair's formula and
\* as the request (y, x) do, and the t term of the stored pair is 0.
PartialAsStored(x, y) ==
  LET p == StoredFor(x, y)
      want == Eval(Fresh(obj), SecondPartial(p))
      other == Eval(Fresh(obj), _F_x_y(y, x))
      t == Get(Fresh(obj), AttrName("_t_", p[1], p[2]))
  IN /\ p \in StoredPairs
     /\ last.exc # "AttributeError"
     /\ (last.exc = "") = (want.exc = "")
     /\ last.exc = other.exc
     /\ last.exc = "" => (last.val = want.val /\ last.val = other.val)
     /\ t.exc = "" /\ t.val = Zero

\* C11: every request (x, y) of a second partial, x and y among h, a, b,
\* looks up the attributes of one of the six stored pairs hh, ha, hb, aa,
\* ab, bb (it is swapped exactly when y is h or it is (b, a)), returns
\* q_data * (lng_xy - lnq_xy) - u_xy of that pair, which is also what the
\* request (y, x) returns, and the t term left out is 0 for that pair.
C11_CanonicalPair ==
  /\ OnlyStoredPairs
  /\ \A x \in Pars, y \in Pars :
       (pc = "built" /\ last.op = AttrName("_F_", x, y)) => PartialAsStored(x, y)

\* The swapped request (b, a) has returned a value, read from the pair ab.
C11_Witness ==
  /\ pc = "built"
  /\ last.op = AttrName("_F_", "b", "a")
  /\ last.exc = ""
  /\ "_u_a_b" \in DOMAIN store
  /\ args.n = 2

\* What mrp_params_b13 returns for the arguments of the call of mrp_b13.
ParamsOfCall ==
  mrp_params_b13(b13.args.z, b13.args.Om0, b13.args.sig8, b13.args.Hs_kw,
                 b13.args.alpha_kw, b13.args.beta_kw, b13.args.logA_kw)

\* C12: mrp_b13 hands each keyword dictionary to the formula of its own
\* parameter (Hs_kw to logHs_b13, alpha_kw to alpha_b13, beta_kw to
\* beta_b13, logA_kw to logA_b13): it ends as mrp_params_b13 does for the
\* same arguments, and the MRP it evaluates has the logHs, alpha and beta
\* mrp_params_b13 returns and, when no norm is given, the norm exp(logA).
C12_KeywordsRouted ==
  b13.pc # "idle" =>
    /\ b13.exc = ParamsOfCall.exc
    /\ b13.exc = "" =>
         /\ \A i \in 1..3 : b13.params[i] = ParamsOfCall.val[i]
         /\ b13.args.norm = PyNone =>
              b13.params[4] = TermUn("exp", ParamsOfCall.val[4])
         /\ b13.out = mrp(b13.args.m, ParamsOfCall.val[1], ParamsOfCall.val[2],
                          ParamsOfCall.val[3], b13.args.mmin, b13.args.mmax,
                          b13.params[4])

====
